---- MODULE Spec2Model ----
(***************************************************************************)
(* Table synchronisation engine of the kmesh workload controller           *)
(* (pkg/controller/workload/workload_processor.go).                        *)
(*                                                                         *)
(* The Processor turns workload / service upserts and removals into edits  *)
(* of four flat tables (Frontend, Service, Endpoint, Backend).  Every      *)
(* handler is modelled as a function from Processor state to Processor     *)
(* state; an action applies one handler to the current state.             *)
(*                                                                         *)
(* Tables, caches and the HashName map are functions whose DOMAIN is the   *)
(* set of keys that currently have a row.                                  *)
(***************************************************************************)
EXTENDS Naturals, Sequences, FiniteSets, TLC

(***************************************************************************)
(* Bounds of the model.                                                    *)
(***************************************************************************)
\* bpf.MaxServiceNum is 10 in the program; the model scales it so that a
\* workload listing every service of the model exceeds it.
MaxServiceNum == 1
\* bpf.MaxPortNum is 10 in the program; scaled the same way.
MaxPortNum == 2
\* endpointCount is a uint32; the model stops a step that would take a
\* Service row beyond this many endpoints.
MaxEndpoints == 3
\* The highest table write of a handler that an injected failure may hit.
MaxFailAt == 6
\* The Address responses of one process that the model tells apart.
MaxBatches == 3

(***************************************************************************)
(* Program constants.                                                      *)
(***************************************************************************)
LbPolicyRandom == 0
KmeshWaypointPort == 15019
WaypointServicePort == 15021

(***************************************************************************)
(* Names, addresses and input records.                                     *)
(***************************************************************************)
W1 == "c/g/pod/ns/w1"
W2 == "c/g/pod/ns/w2"
S1 == "ns/svc1"
S2 == "ns/waypoint"

WorkloadNames == {W1, W2}
ServiceNames == {S1, S2}

\* Addresses are numbered; 0 is the all-zero address (no waypoint).
\* Workloads use 1 and 2, services 3 and 4, waypoints 5.
WaypointIPs == {5}

\* A GatewayAddress: address and HboneMtlsPort; NoWaypoint is the nil waypoint.
NoWaypoint == [addr |-> 0, port |-> 0]
Waypoints == [addr : WaypointIPs, port : {15008}]

\* strings.Contains(serviceName, "waypoint")
ContainsWaypoint(name) == name = S2

\* The id HashName assigns to a name.  The model gives every name a fixed id,
\* so a name deleted and seen again gets its old id back.
Hash == (W1 :> 11) @@ (W2 :> 12) @@ (S1 :> 21) @@ (S2 :> 22)

\* nets.ConvertPortToBigEndian: the two low bytes swapped.
ConvertPortToBigEndian(port) == (port % 256) * 256 + ((port \div 256) % 256)

(***************************************************************************)
(* Small helpers on functions and sets.                                    *)
(***************************************************************************)
Put(f, k, v) == (k :> v) @@ f
Drop(f, k) == [x \in DOMAIN f \ {k} |-> f[x]]
Min(a, b) == IF a < b THEN a ELSE b

\* All orders in which a range loop may visit a set.
Orders(S) == {q \in [1..Cardinality(S) -> S] : \A i, j \in 1..Cardinality(S) : i # j => q[i] # q[j]}

\* The names of S in one fixed order (by id).
RECURSIVE InOrder(_)
InOrder(S) ==
    IF S = {} THEN << >>
    ELSE LET n == CHOOSE x \in S : \A y \in S : Hash[x] <= Hash[y]
         IN  <<n>> \o InOrder(S \ {n})

(***************************************************************************)
(* The Processor state.                                                    *)
(***************************************************************************)
VARIABLES
    hashName,            \* HashName.strToNum: name -> id
    frontend,            \* Frontend table: ip -> upstreamId
    service,             \* Service table: serviceId -> ServiceValue
    endpoint,            \* Endpoint table: <<serviceId, backendIndex>> -> backendUid
    backend,             \* Backend table: backendUid -> BackendValue
    byUid,               \* WorkloadCache: uid -> workload record
    relationShip,        \* WorkloadCache: <<workloadId, serviceId>> -> backendIndex
    serviceCache,        \* ServiceCache: name -> service record
    endpointsByService,  \* Processor.endpointsByService: service name -> set of uids
    startType,           \* kmeshbpf start type: "Normal" or "Restart"
    ack,                 \* Processor.ack: the type URL of the last response
    bootType,            \* the start type the process was launched with
    addressBatches,      \* Address responses processed by this process (up to MaxBatches)
    compareRuns,         \* reconciliation passes run by this process
    map_of_dst_info,     \* packet path: socket -> original destination recorded for it
    conn                 \* packet path: the last backend_manager call and its outcome

vars == <<hashName, frontend, service, endpoint, backend, byUid, relationShip,
          serviceCache, endpointsByService, startType, ack, bootType,
          addressBatches, compareRuns, map_of_dst_info, conn>>

Empty == [x \in {} |-> 0]

\* The Processor as one value.  writes counts the table writes a handler has
\* attempted, failAt is the write that fails (0: none), err is the Go error,
\* seen lists the table contents after every write done, as the packet path
\* may read them,
\* passes lists, for every reconciliation pass run since, the names the
\* caches held when the pass ran.
Cur(failAt) ==
    [hashName |-> hashName, frontend |-> frontend, service |-> service,
     endpoint |-> endpoint, backend |-> backend, byUid |-> byUid,
     relationShip |-> relationShip, serviceCache |-> serviceCache,
     endpointsByService |-> endpointsByService,
     startType |-> startType, ack |-> ack, bootType |-> bootType,
     addressBatches |-> addressBatches, compareRuns |-> compareRuns,
     writes |-> 0, failAt |-> failAt, err |-> FALSE, seen |-> << >>,
     passes |-> << >>]

Commit(st) ==
    /\ \A sid \in DOMAIN st.service : st.service[sid].endpointCount <= MaxEndpoints
    /\ hashName' = st.hashName
    /\ frontend' = st.frontend
    /\ service' = st.service
    /\ endpoint' = st.endpoint
    /\ backend' = st.backend
    /\ byUid' = st.byUid
    /\ relationShip' = st.relationShip
    /\ serviceCache' = st.serviceCache
    /\ endpointsByService' = st.endpointsByService
    /\ startType' = st.startType
    /\ ack' = st.ack
    /\ bootType' = st.bootType
    /\ addressBatches' = st.addressBatches
    /\ compareRuns' = st.compareRuns
    /\ UNCHANGED <<map_of_dst_info, conn>>

(***************************************************************************)
(* HashName.                                                               *)
(***************************************************************************)
\* HashName.StrToNum: the state after the call; the id is then hashName[name].
StrToNum(st, name) ==
    IF name \in DOMAIN st.hashName THEN st
    ELSE [st EXCEPT !.hashName = Put(@, name, Hash[name])]

RECURSIVE StrToNumAll(_, _)
StrToNumAll(st, names) ==
    IF names = {} THEN st
    ELSE LET n == CHOOSE x \in names : TRUE
         IN  StrToNumAll(StrToNum(st, n), names \ {n})

\* HashName.Delete
HashNameDelete(st, name) == [st EXCEPT !.hashName = Drop(@, name)]

(***************************************************************************)
(* TableStore.  A write counts as one attempt; the attempt numbered        *)
(* failAt returns an error and leaves the table as it was.  A delete of a  *)
(* key that has no row succeeds.                                           *)
(***************************************************************************)
Fails(st) == st.writes + 1 = st.failAt
Failed(st) == [st EXCEPT !.writes = @ + 1, !.err = TRUE]
Wrote(st) == [st EXCEPT !.writes = @ + 1]
Seen(st) ==
    [st EXCEPT !.seen = Append(@, [frontend |-> st.frontend, service |-> st.service,
                                   endpoint |-> st.endpoint, backend |-> st.backend])]

FrontendUpdate(st, ip, id) ==
    IF Fails(st) THEN Failed(st) ELSE Seen([Wrote(st) EXCEPT !.frontend = Put(@, ip, id)])
FrontendDelete(st, ip) ==
    IF Fails(st) THEN Failed(st) ELSE Seen([Wrote(st) EXCEPT !.frontend = Drop(@, ip)])
ServiceUpdate(st, sid, sv) ==
    IF Fails(st) THEN Failed(st) ELSE Seen([Wrote(st) EXCEPT !.service = Put(@, sid, sv)])
ServiceDelete(st, sid) ==
    IF Fails(st) THEN Failed(st) ELSE Seen([Wrote(st) EXCEPT !.service = Drop(@, sid)])
EndpointUpdate(st, ek, uid) ==
    IF Fails(st) THEN Failed(st) ELSE Seen([Wrote(st) EXCEPT !.endpoint = Put(@, ek, uid)])
EndpointDelete(st, ek) ==
    IF Fails(st) THEN Failed(st) ELSE Seen([Wrote(st) EXCEPT !.endpoint = Drop(@, ek)])
BackendUpdate(st, uid, bv) ==
    IF Fails(st) THEN Failed(st) ELSE Seen([Wrote(st) EXCEPT !.backend = Put(@, uid, bv)])
BackendDelete(st, uid) ==
    IF Fails(st) THEN Failed(st) ELSE Seen([Wrote(st) EXCEPT !.backend = Drop(@, uid)])

\* bpf.Cache.EndpointIterFindKey / FrontendIterFindKey
EndpointIterFindKey(st, uid) == {ek \in DOMAIN st.endpoint : st.endpoint[ek] = uid}
FrontendIterFindKey(st, id) == {ip \in DOMAIN st.frontend : st.frontend[ip] = id}

(***************************************************************************)
(* ResourceCache.                                                          *)
(***************************************************************************)
\* WorkloadCache.AddOrUpdateWorkload: the services left and the services joined
PrevServices(st, uid) == IF uid \in DOMAIN st.byUid THEN st.byUid[uid].services ELSE {}
DeletedServices(st, w) == PrevServices(st, w.uid) \ w.services
NewServices(st, w) == w.services \ PrevServices(st, w.uid)
AddOrUpdateWorkload(st, w) == [st EXCEPT !.byUid = Put(@, w.uid, w)]
DeleteWorkload(st, uid) == [st EXCEPT !.byUid = Drop(@, uid)]

AddOrUpdateService(st, s) == [st EXCEPT !.serviceCache = Put(@, s.name, s)]
DeleteService(st, name) == [st EXCEPT !.serviceCache = Drop(@, name)]

\* WorkloadCache.UpdateRelationShip / DeleteRelationShip / GetRelationShip
UpdateRelationShip(st, workloadId, serviceId, relationId) ==
    [st EXCEPT !.relationShip = Put(@, <<workloadId, serviceId>>, relationId)]
DeleteRelationShip(st, serviceId, relationId) ==
    [st EXCEPT !.relationShip =
        [k \in {x \in DOMAIN @ : ~(x[2] = serviceId /\ @[x] = relationId)} |-> @[k]]]
HasRelationShip(st, workloadId, serviceId) == <<workloadId, serviceId>> \in DOMAIN st.relationShip
GetRelationShip(st, workloadId, serviceId) == st.relationShip[<<workloadId, serviceId>>]

(***************************************************************************)
(* Endpoint records.                                                       *)
(***************************************************************************)
updateRelationShipWithWorkloadAndService(st, workloadId, serviceId, relationId) ==
    LET s1 == EndpointUpdate(st, <<serviceId, relationId>>, workloadId)
    IN  IF s1.err THEN s1
        ELSE UpdateRelationShip(s1, workloadId, serviceId, relationId)

deleteRelationShipWithWorkloadAndService(st, serviceId, relationId) ==
    LET s1 == EndpointDelete(st, <<serviceId, relationId>>)
    IN  IF s1.err THEN s1
        ELSE DeleteRelationShip(s1, serviceId, relationId)

\* One iteration of the loop of deleteEndpointRecords.
deleteEndpointRecord(st, ek) ==
    LET serviceId == ek[1]
        backendIndex == ek[2]
    IN  IF serviceId \in DOMAIN st.service
        THEN LET svUpdate == st.service[serviceId]
                 lastEndpointKey == <<serviceId, svUpdate.endpointCount>>
             IN  IF lastEndpointKey \in DOMAIN st.endpoint
                 THEN LET s1 == updateRelationShipWithWorkloadAndService(
                                    st, st.endpoint[lastEndpointKey], serviceId, backendIndex)
                          s2 == EndpointDelete(s1, lastEndpointKey)
                          s3 == DeleteRelationShip(s2, serviceId, backendIndex)
                          s4 == ServiceUpdate(s3, serviceId,
                                    [svUpdate EXCEPT !.endpointCount = @ - 1])
                      IN  IF s1.err THEN s1 ELSE IF s2.err THEN s2 ELSE s4
                 ELSE deleteRelationShipWithWorkloadAndService(st, serviceId, backendIndex)
        ELSE deleteRelationShipWithWorkloadAndService(st, serviceId, backendIndex)

RECURSIVE deleteEndpointRecords(_, _)
deleteEndpointRecords(st, endpoint_keys) ==
    IF endpoint_keys = << >> THEN st
    ELSE LET s1 == deleteEndpointRecord(st, Head(endpoint_keys))
         IN  IF s1.err THEN s1 ELSE deleteEndpointRecords(s1, Tail(endpoint_keys))

storeEndpointWithService(st, serviceId, uid) ==
    LET sv == [st.service[serviceId] EXCEPT !.endpointCount = @ + 1]
        s1 == EndpointUpdate(st, <<serviceId, sv.endpointCount>>, uid)
        s2 == ServiceUpdate(s1, serviceId, sv)
    IN  IF s1.err THEN s1
        ELSE IF s2.err THEN s2
        ELSE UpdateRelationShip(s2, uid, serviceId, sv.endpointCount)

storeServiceEndpoint(st, workload_uid, serviceName) ==
    [st EXCEPT !.endpointsByService =
        IF serviceName \in DOMAIN @
        THEN [@ EXCEPT ![serviceName] = @ \cup {workload_uid}]
        ELSE Put(@, serviceName, {workload_uid})]

(***************************************************************************)
(* Workload removal.                                                       *)
(***************************************************************************)
deletePodFrontendData(st, uid) ==
    IF uid \in DOMAIN st.backend
    THEN FrontendDelete(st, st.backend[uid].ip)
    ELSE st

\* order: the order in which EndpointIterFindKey returned the keys.
removeWorkloadFromBpfMap(st, uid, order) ==
    LET s0 == StrToNum(st, uid)
        backendUid == s0.hashName[uid]
        s1 == deletePodFrontendData(s0, backendUid)
        s2 == IF order # << >> THEN deleteEndpointRecords(s1, order) ELSE s1
        s3 == BackendDelete(s2, backendUid)
    IN  IF s1.err THEN s1
        ELSE IF s2.err THEN s2
        ELSE IF s3.err THEN s3
        ELSE HashNameDelete(s3, uid)

\* The body of the loop of removeWorkloadResource, for one uid.
removeWorkloadResource(st, uid, order) ==
    removeWorkloadFromBpfMap(DeleteWorkload(st, uid), uid, order)

\* The orders EndpointIterFindKey may return for uid in state st.
FindKeyOrders(st, uid) == Orders(EndpointIterFindKey(st, Hash[uid]))

(***************************************************************************)
(* Service removal.                                                        *)
(***************************************************************************)
RECURSIVE deleteFrontendKeys(_, _)
deleteFrontendKeys(st, fks) ==
    IF fks = {} THEN st
    ELSE LET fk == CHOOSE x \in fks : \A y \in fks : x <= y
             s1 == FrontendDelete(st, fk)
         IN  IF s1.err THEN s1 ELSE deleteFrontendKeys(s1, fks \ {fk})

deleteFrontendData(st, id) == deleteFrontendKeys(st, FrontendIterFindKey(st, id))

RECURSIVE deleteServiceEndpoints(_, _, _, _)
deleteServiceEndpoints(st, serviceId, i, endpointCount) ==
    IF i > endpointCount THEN st
    ELSE LET s1 == EndpointDelete(st, <<serviceId, i>>)
         IN  IF s1.err THEN s1
             ELSE deleteServiceEndpoints(s1, serviceId, i + 1, endpointCount)

\* removeServiceResourceFromBpfMap deleting the Service row before the
\* Frontend rows.
removeServiceRowFirst(st, name) ==
    LET s0 == StrToNum(DeleteService(st, name), name)
        serviceId == s0.hashName[name]
    IN  IF serviceId \in DOMAIN s0.service
        THEN LET svDelete == s0.service[serviceId]
                 s1 == ServiceDelete(s0, serviceId)
                 s2 == deleteFrontendData(s1, serviceId)
                 s3 == deleteServiceEndpoints(s2, serviceId, 1, svDelete.endpointCount)
             IN  IF s1.err THEN s1
                 ELSE IF s2.err THEN s2
                 ELSE IF s3.err THEN s3
                 ELSE HashNameDelete(s3, name)
        ELSE [HashNameDelete(s0, name) EXCEPT !.err = TRUE]

removeServiceResourceFromBpfMap(st, name) ==
    LET s0 == StrToNum(DeleteService(st, name), name)
        serviceId == s0.hashName[name]
    IN  IF serviceId \in DOMAIN s0.service
        THEN LET svDelete == s0.service[serviceId]
                 s1 == deleteFrontendData(s0, serviceId)
                 s2 == ServiceDelete(s1, serviceId)
                 s3 == deleteServiceEndpoints(s2, serviceId, 1, svDelete.endpointCount)
             IN  IF s1.err THEN s1
                 ELSE IF s2.err THEN s2
                 ELSE IF s3.err THEN s3
                 ELSE HashNameDelete(s3, name)
        ELSE [HashNameDelete(s0, name) EXCEPT !.err = TRUE]

\* The body of the loop of removeServiceResource, for one name.
removeServiceResource(st, name) ==
    removeServiceResourceFromBpfMap(DeleteService(st, name), name)

(***************************************************************************)
(* Workload upsert.                                                        *)
(***************************************************************************)
storePodFrontendData(st, uid, ip) == FrontendUpdate(st, ip, uid)

\* The endpoint keys deleteResidualServicesWithWorkload collects.
RECURSIVE residualKeys(_, _, _)
residualKeys(st, workloadUid, services) ==
    IF services = << >> THEN << >>
    ELSE LET serviceId == st.hashName[Head(services)]
             rest == residualKeys(st, workloadUid, Tail(services))
         IN  IF HasRelationShip(st, workloadUid, serviceId)
             THEN <<(<<serviceId, GetRelationShip(st, workloadUid, serviceId)>>)>> \o rest
             ELSE rest

deleteResidualServicesWithWorkload(st, workload, services) ==
    IF services = {} THEN st
    ELSE LET s1 == StrToNumAll(StrToNum(st, workload.uid), services)
         IN  deleteEndpointRecords(s1,
                 residualKeys(s1, s1.hashName[workload.uid], InOrder(services)))

RECURSIVE addServices(_, _, _)
addServices(st, uid, newServices) ==
    IF newServices = << >> THEN st
    ELSE LET serviceName == Head(newServices)
             s1 == StrToNum(st, serviceName)
             serviceId == s1.hashName[serviceName]
             s2 == IF serviceId \in DOMAIN s1.service
                   THEN storeEndpointWithService(s1, serviceId, s1.hashName[uid])
                   ELSE storeServiceEndpoint(s1, uid, serviceName)
         IN  IF s2.err THEN s2 ELSE addServices(s2, uid, Tail(newServices))

addNewServicesWithWorkload(st, workload, newServices) ==
    IF newServices = {} THEN st
    ELSE addServices(StrToNum(st, workload.uid), workload.uid, InOrder(newServices))

\* The service sets the loop over workload.GetServices() may store in the
\* Backend row: it stops after MaxServiceNum names, in map iteration order.
KeptServices(workload) ==
    {k \in SUBSET workload.services :
        Cardinality(k) = Min(Cardinality(workload.services), MaxServiceNum)}

RECURSIVE storeAddresses(_, _, _, _, _)
storeAddresses(st, uid, bv, ips, hostNetwork) ==
    IF ips = << >> THEN st
    ELSE LET ip == Head(ips)
             s1 == BackendUpdate(st, uid, [bv EXCEPT !.ip = ip])
             s2 == IF hostNetwork THEN s1 ELSE storePodFrontendData(s1, uid, ip)
         IN  IF s1.err THEN s1
             ELSE IF s2.err THEN s2
             ELSE storeAddresses(s2, uid, bv, Tail(ips), hostNetwork)

updateWorkload(st, workload, kept) ==
    LET s1 == StrToNumAll(StrToNum(st, workload.uid), kept)
        bv == [ip |-> 0,
               serviceCount |-> Cardinality(kept),
               services |-> {s1.hashName[n] : n \in kept},
               waypointAddr |-> workload.waypoint.addr,
               waypointPort |-> ConvertPortToBigEndian(workload.waypoint.port)]
    IN  storeAddresses(s1, s1.hashName[workload.uid], bv, workload.addresses,
                       workload.hostNetwork)

handleWorkload(st, workload, kept) ==
    LET deletedServices == DeletedServices(st, workload)
        newServices == NewServices(st, workload)
        s0 == AddOrUpdateWorkload(st, workload)
        s1 == deleteResidualServicesWithWorkload(s0, workload, deletedServices)
        s2 == addNewServicesWithWorkload(s1, workload, newServices)
    IN  IF s1.err THEN s1
        ELSE IF s2.err THEN s2
        ELSE updateWorkload(s2, workload, kept)

(***************************************************************************)
(* Service upsert.                                                         *)
(***************************************************************************)
RECURSIVE storeServiceFrontends(_, _, _)
storeServiceFrontends(st, serviceId, addresses) ==
    IF addresses = << >> THEN st
    ELSE LET s1 == FrontendUpdate(st, Head(addresses), serviceId)
         IN  IF s1.err THEN s1
             ELSE storeServiceFrontends(s1, serviceId, Tail(addresses))

storeServiceFrontendData(st, serviceId, svc) ==
    storeServiceFrontends(st, serviceId, svc.addresses)

\* The drain loop of storeServiceData over endpointsByService[serviceName],
\* visited in the order given.
RECURSIVE drainEndpoints(_, _, _, _)
drainEndpoints(st, serviceId, order, endpointIndex) ==
    IF order = << >> THEN st
    ELSE LET s1 == StrToNum(st, Head(order))
             backendUid == s1.hashName[Head(order)]
             s2 == EndpointUpdate(s1, <<serviceId, endpointIndex + 1>>, backendUid)
         IN  IF s2.err THEN s2
             ELSE drainEndpoints(
                      UpdateRelationShip(s2, backendUid, serviceId, endpointIndex + 1),
                      serviceId, Tail(order), endpointIndex + 1)

\* The port arrays of the Service row: MaxPortNum entries, 0 where unused.
ServicePorts(ports) ==
    [i \in 1..MaxPortNum |->
        IF i <= Len(ports) THEN ConvertPortToBigEndian(ports[i].servicePort) ELSE 0]
TargetPorts(serviceName, ports) ==
    [i \in 1..MaxPortNum |->
        IF i > Len(ports) THEN 0
        ELSE IF ContainsWaypoint(serviceName) THEN ConvertPortToBigEndian(KmeshWaypointPort)
        ELSE ConvertPortToBigEndian(ports[i].targetPort)]

\* storeServiceData without delete(p.endpointsByService, serviceName).
storeServiceDataKeepingBuffer(st, serviceName, waypoint, ports, order) ==
    LET s0 == StrToNum(st, serviceName)
        serviceId == s0.hashName[serviceName]
        newValue == [lbPolicy |-> LbPolicyRandom,
                     endpointCount |-> 0,
                     waypointAddr |-> waypoint.addr,
                     waypointPort |-> ConvertPortToBigEndian(waypoint.port),
                     servicePort |-> ServicePorts(ports),
                     targetPort |-> TargetPorts(serviceName, ports)]
    IN  IF serviceId \in DOMAIN s0.service
        THEN [ServiceUpdate(s0, serviceId,
                  [newValue EXCEPT !.endpointCount = s0.service[serviceId].endpointCount])
              EXCEPT !.err = FALSE]
        ELSE LET s1 == IF serviceName \in DOMAIN s0.endpointsByService
                       THEN drainEndpoints(s0, serviceId, order, 0)
                       ELSE s0
                 s2 == s1
                 count == IF serviceName \in DOMAIN s0.endpointsByService
                          THEN Cardinality(s0.endpointsByService[serviceName])
                          ELSE 0
             IN  IF s1.err THEN s1
                 ELSE [ServiceUpdate(s2, serviceId, [newValue EXCEPT !.endpointCount = count])
                       EXCEPT !.err = FALSE]

storeServiceData(st, serviceName, waypoint, ports, order) ==
    LET s0 == StrToNum(st, serviceName)
        serviceId == s0.hashName[serviceName]
        newValue == [lbPolicy |-> LbPolicyRandom,
                     endpointCount |-> 0,
                     waypointAddr |-> waypoint.addr,
                     waypointPort |-> ConvertPortToBigEndian(waypoint.port),
                     servicePort |-> ServicePorts(ports),
                     targetPort |-> TargetPorts(serviceName, ports)]
    IN  IF serviceId \in DOMAIN s0.service
        THEN [ServiceUpdate(s0, serviceId,
                  [newValue EXCEPT !.endpointCount = s0.service[serviceId].endpointCount])
              EXCEPT !.err = FALSE]
        ELSE LET s1 == IF serviceName \in DOMAIN s0.endpointsByService
                       THEN drainEndpoints(s0, serviceId, order, 0)
                       ELSE s0
                 s2 == [s1 EXCEPT !.endpointsByService = Drop(@, serviceName)]
                 count == IF serviceName \in DOMAIN s0.endpointsByService
                          THEN Cardinality(s0.endpointsByService[serviceName])
                          ELSE 0
             IN  IF s1.err THEN s1
                 ELSE [ServiceUpdate(s2, serviceId, [newValue EXCEPT !.endpointCount = count])
                       EXCEPT !.err = FALSE]

containsPort(svc, port) == \E i \in 1..Len(svc.ports) : svc.ports[i].servicePort = port

\* StripWaypoint without the test for port 15021.
StripWaypointAddressOnly(svc) ==
    IF svc.waypoint # NoWaypoint /\ svc.waypoint.addr = svc.addresses[1]
    THEN [svc EXCEPT !.waypoint = NoWaypoint]
    ELSE svc

\* The preprocessing of handleService: the waypoint of a waypoint service is dropped.
StripWaypoint(svc) ==
    IF svc.waypoint # NoWaypoint
       /\ (svc.waypoint.addr = svc.addresses[1] \/ containsPort(svc, WaypointServicePort))
    THEN [svc EXCEPT !.waypoint = NoWaypoint]
    ELSE svc

handleService(st, svcIn, order) ==
    LET svc == StripWaypoint(svcIn)
        s0 == StrToNum(AddOrUpdateService(st, svc), svc.name)
        serviceId == s0.hashName[svc.name]
        s1 == storeServiceFrontendData(s0, serviceId, svc)
    IN  IF s1.err THEN s1
        ELSE storeServiceData(s1, svc.name, svc.waypoint, svc.ports, order)

\* The orders in which the drain loop may visit the buffered uids.
DrainOrders(st, serviceName) ==
    IF serviceName \in DOMAIN st.endpointsByService
       /\ ~(serviceName \in DOMAIN st.hashName
            /\ st.hashName[serviceName] \in DOMAIN st.service)
    THEN Orders(st.endpointsByService[serviceName])
    ELSE {<< >>}

(***************************************************************************)
(* Responses.  A response has a type URL, a list of resources and a list   *)
(* of removed names.  A resource is a workload, a service or bytes that do *)
(* not parse; every resource and every removed name carries the number of  *)
(* the table write that fails while it is processed (0: none).  The map    *)
(* iteration orders of the program make the result a set of states.        *)
(***************************************************************************)
\* strings.Count(res, "/")
SlashCount == (W1 :> 4) @@ (W2 :> 4) @@ (S1 :> 1) @@ (S2 :> 1)

\* The processor about to process the next resource.
Fresh(st, failAt) ==
    [st EXCEPT !.writes = 0, !.failAt = failAt, !.err = FALSE, !.seen = << >>]

\* One iteration of the loop of handleAddressTypeResponse.
handleResource(st, r) ==
    IF r.kind = "workload"
    THEN {handleWorkload(Fresh(st, r.failAt), r.workload, kept) :
              kept \in KeptServices(r.workload)}
    ELSE IF r.kind = "service"
    THEN {handleService(Fresh(st, r.failAt), r.service, order) :
              order \in DrainOrders(st, r.service.name)}
    ELSE {[Fresh(st, 0) EXCEPT !.err = TRUE]}

RECURSIVE handleResources(_, _)
handleResources(states, resources) ==
    IF resources = << >> THEN states
    ELSE handleResources(UNION {handleResource(st, Head(resources)) : st \in states},
                         Tail(resources))

\* The loop of removeWorkloadResource: it returns at the first error.
RECURSIVE removeWorkloadResources(_, _)
removeWorkloadResources(st, removedResources) ==
    IF removedResources = << >> THEN {st}
    ELSE LET uid == Head(removedResources).name
             s0 == Fresh(st, Head(removedResources).failAt)
         IN  UNION {LET s1 == removeWorkloadResource(s0, uid, order)
                    IN  IF s1.err THEN {s1}
                        ELSE removeWorkloadResources(s1, Tail(removedResources)) :
                    order \in FindKeyOrders(s0, uid)}

\* The loop of removeServiceResource: it returns at the first error.
RECURSIVE removeServiceResources(_, _)
removeServiceResources(st, resources) ==
    IF resources = << >> THEN st
    ELSE LET s1 == removeServiceResource(Fresh(st, Head(resources).failAt),
                                         Head(resources).name)
         IN  IF s1.err THEN s1 ELSE removeServiceResources(s1, Tail(resources))

IsWorkloadName(item) == SlashCount[item.name] > 2
IsServiceName(item) == ~IsWorkloadName(item)

handleRemovedAddresses(st, removed) ==
    LET workloadNames == SelectSeq(removed, IsWorkloadName)
        serviceNames == SelectSeq(removed, IsServiceName)
    IN  {[removeServiceResources(s1, serviceNames) EXCEPT !.err = FALSE] :
            s1 \in removeWorkloadResources(st, workloadNames)}

\* The range loop of compareWorkloadAndServiceWithHashName over strToNum,
\* visiting the names in the order given; a name deleted meanwhile is skipped.
RECURSIVE compareNames(_, _)
compareNames(st, order) ==
    IF order = << >> THEN {st}
    ELSE LET str == Head(order)
         IN  IF str \notin DOMAIN st.hashName
                \/ str \in DOMAIN st.byUid
                \/ str \in DOMAIN st.serviceCache
             THEN compareNames(st, Tail(order))
             ELSE LET num == st.hashName[str]
                  IN  IF num \in DOMAIN st.backend
                      THEN UNION {compareNames(
                                      removeWorkloadFromBpfMap(Fresh(st, 0), str, o),
                                      Tail(order)) :
                                  o \in Orders(EndpointIterFindKey(st, num))}
                      ELSE IF num \in DOMAIN st.service
                      THEN compareNames(
                               removeServiceResourceFromBpfMap(Fresh(st, 0), str),
                               Tail(order))
                      ELSE compareNames(st, Tail(order))

\* The names GetWorkloadByUid or GetService find.
LiveNames(st) == DOMAIN st.byUid \cup DOMAIN st.serviceCache

\* compareWorkloadAndServiceWithHashName without SetStartType(Normal).
compareKeepingStartType(st) ==
    IF st.startType # "Restart" THEN {st}
    ELSE UNION {compareNames([st EXCEPT !.compareRuns = @ + 1,
                                        !.passes = Append(@, LiveNames(st))],
                             order) :
                   order \in Orders(DOMAIN st.hashName)}

compareWorkloadAndServiceWithHashName(st) ==
    IF st.startType # "Restart" THEN {st}
    ELSE UNION {compareNames([st EXCEPT !.startType = "Normal", !.compareRuns = @ + 1,
                                        !.passes = Append(@, LiveNames(st))],
                             order) :
                   order \in Orders(DOMAIN st.hashName)}

\* handleAddressTypeResponse returning at the first resource that fails.
RECURSIVE handleResourcesUntilError(_, _)
handleResourcesUntilError(states, resources) ==
    IF resources = << >> THEN states
    ELSE UNION {LET next == handleResource(st, Head(resources))
                IN  {s \in next : s.err}
                    \cup handleResourcesUntilError({s \in next : ~s.err}, Tail(resources)) :
                st \in states}

handleAddressTypeResponseAborting(st, rsp) ==
    LET upserted == handleResourcesUntilError({st}, rsp.resources)
        removed == UNION {handleRemovedAddresses(s, rsp.removed) : s \in {x \in upserted : ~x.err}}
    IN  {x \in upserted : x.err}
        \cup UNION {compareWorkloadAndServiceWithHashName(s) : s \in removed}

handleAddressTypeResponse(st, rsp) ==
    LET upserted == handleResources({st}, rsp.resources)
        removed == UNION {handleRemovedAddresses(s, rsp.removed) : s \in upserted}
    IN  UNION {compareWorkloadAndServiceWithHashName(s) : s \in removed}

\* The authorization policies belong to the RBAC collaborator.
handleAuthorizationTypeResponse(st, rsp) == {st}

processWorkloadResponse(st, rsp) ==
    LET s0 == [st EXCEPT !.ack = rsp.typeUrl]
    IN  IF rsp.typeUrl = "Address"
        THEN {[s EXCEPT !.addressBatches = Min(@ + 1, MaxBatches)] :
                 s \in handleAddressTypeResponse(s0, rsp)}
        ELSE IF rsp.typeUrl = "Authorization"
        THEN handleAuthorizationTypeResponse(s0, rsp)
        ELSE {s0}

(***************************************************************************)
(* Inputs.  Each specification draws its upserts from a small catalogue    *)
(* of records.                                                             *)
(***************************************************************************)
Port80 == [servicePort |-> 80, targetPort |-> 8080]
Port15021 == [servicePort |-> WaypointServicePort, targetPort |-> WaypointServicePort]

\* The address a workload has when the specification does not vary addresses.
HomeAddress == (W1 :> <<1>>) @@ (W2 :> <<2>>)
\* The address and ports a service has when the specification does not vary them.
PlainService(name) ==
    [name |-> name, addresses |-> IF name = S1 THEN <<3>> ELSE <<4>>,
     ports |-> <<Port80>>, waypoint |-> NoWaypoint]

\* Membership: both workloads joining and leaving one service.
WorkloadInputs ==
    {[uid |-> u, addresses |-> HomeAddress[u], services |-> ss,
      hostNetwork |-> FALSE, waypoint |-> NoWaypoint] :
        u \in WorkloadNames, ss \in SUBSET {S1}}
ServiceInputs == {PlainService(S1)}

\* Service sets: one workload with every set of services, more than
\* MaxServiceNum of them included.
SetWorkloadInputs ==
    {[uid |-> W1, addresses |-> HomeAddress[W1], services |-> ss,
      hostNetwork |-> FALSE, waypoint |-> NoWaypoint] : ss \in SUBSET ServiceNames}
SetServiceInputs == {PlainService(n) : n \in ServiceNames}

\* Addresses: workloads with one or two addresses, moving between addresses,
\* sharing an address, in pod or host network mode; one service.
AddressLists == {<<1>>, <<2>>, <<1, 2>>}
AddrWorkloadInputs ==
    [uid : {W1}, addresses : AddressLists, services : {{S1}},
     hostNetwork : {FALSE}, waypoint : {NoWaypoint}]
    \cup
    [uid : {W2}, addresses : {<<1>>, <<2>>}, services : {{}},
     hostNetwork : BOOLEAN, waypoint : {NoWaypoint}]
AddrServiceInputs == {PlainService(S1)}

\* Waypoints: services with and without a waypoint, with the waypoint at the
\* service's own first address, with and without port 15021, with more ports
\* than the Service row holds.
PortLists == {<<Port80>>, <<Port80, Port15021>>, <<Port80, Port80, Port15021>>}
WpServiceInputs ==
    [name : ServiceNames, addresses : {<<3>>, <<4, 3>>}, ports : PortLists,
     waypoint : {NoWaypoint} \cup Waypoints \cup [addr : {3}, port : {15008}]]
WpWorkloadInputs ==
    {[uid |-> W1, addresses |-> <<1>>, services |-> {S1},
      hostNetwork |-> FALSE, waypoint |-> NoWaypoint]}

(***************************************************************************)
(* The packet path (backend.h): the connect hook has chosen a Backend row  *)
(* and rewrites the destination of the connection.  IPv4 connections.      *)
(* A call returns the map of recorded destinations, the ctx_info and the   *)
(* return code ("OK" for 0, else the name of the errno).                   *)
(***************************************************************************)
MAX_PORT_COUNT == MaxPortNum

\* bpf_map_update_elem with BPF_NOEXIST: the key must not be in the map.
MapUpdateNoExist(map, key, value) ==
    IF key \in DOMAIN map
    THEN [map |-> map, ret |-> "EEXIST"]
    ELSE [map |-> Put(map, key, value), ret |-> "OK"]

waypoint_manager(map, ctx, info, wp_addr, port) ==
    LET value_tuple == [daddr |-> info.vip, dport |-> ctx.user_port]
        upd == MapUpdateNoExist(map, ctx.sk, value_tuple)
    IN  IF upd.ret # "OK"
        THEN [map |-> upd.map, info |-> info, ret |-> upd.ret]
        ELSE [map |-> upd.map,
              info |-> [info EXCEPT !.dnat_ip = wp_addr, !.dnat_port = port,
                                    !.via_waypoint = TRUE],
              ret |-> "OK"]

\* The first slot j of the Service row whose service port is user_port, or 0.
MatchingPort(service_v, user_port) ==
    LET js == {j \in 1..MAX_PORT_COUNT : service_v.service_port[j] = user_port}
    IN  IF js = {} THEN 0 ELSE CHOOSE j \in js : \A k \in js : j <= k

\* The loop of backend_manager over the services of the Backend row, from
\* the i-th service on.
RECURSIVE BackendServiceLoop(_, _, _, _, _, _)
BackendServiceLoop(r, ctx, backend_v, service_id, service_v, i) ==
    IF i > backend_v.service_count THEN [r EXCEPT !.ret = "ENOENT"]
    ELSE IF i > MAX_PORT_COUNT THEN [r EXCEPT !.ret = "EINVAL"]
    ELSE IF /\ service_id = backend_v.service[i]
            /\ MatchingPort(service_v, ctx.user_port) # 0
         THEN [r EXCEPT !.info.dnat_ip = backend_v.addr,
                        !.info.dnat_port =
                            service_v.target_port[MatchingPort(service_v, ctx.user_port)],
                        !.info.via_waypoint = FALSE,
                        !.ret = "OK"]
         ELSE BackendServiceLoop(r, ctx, backend_v, service_id, service_v, i + 1)

backend_manager(map, ctx, info, backend_v, service_id, service_v) ==
    LET viaWaypoint == backend_v.wp_addr # 0 /\ backend_v.waypoint_port # 0
        r == IF viaWaypoint
             THEN waypoint_manager(map, ctx, info, backend_v.wp_addr,
                                   backend_v.waypoint_port)
             ELSE [map |-> map, info |-> info, ret |-> "OK"]
    IN  IF viaWaypoint /\ r.ret = "ENOEXEC"
        THEN r
        ELSE BackendServiceLoop(r, ctx, backend_v, service_id, service_v, 1)

\* Packet path inputs: Backend rows with and without a waypoint, listing up
\* to MaxServiceNum services, among them the service asked for or not; a
\* Service row with one port; connections to that port and to another one,
\* on two sockets.
PacketPort == ConvertPortToBigEndian(80)
PacketTargetPort == ConvertPortToBigEndian(8080)
OtherPort == ConvertPortToBigEndian(9090)
HbonePort == ConvertPortToBigEndian(15008)
ServiceLists ==
    UNION {Orders(ids) : ids \in {x \in SUBSET {Hash[S1], Hash[S2]} :
                                      Cardinality(x) <= MaxServiceNum}}
BackendValues ==
    {[addr |-> 1, service |-> sl, service_count |-> Len(sl),
      wp_addr |-> wa, waypoint_port |-> wp] :
        sl \in ServiceLists, wa \in {0} \cup WaypointIPs, wp \in {0, HbonePort}}
ServiceValues ==
    {[service_port |-> [j \in 1..MAX_PORT_COUNT |-> IF j = 1 THEN PacketPort ELSE 0],
      target_port |-> [j \in 1..MAX_PORT_COUNT |-> IF j = 1 THEN PacketTargetPort ELSE 0]]}
Sockets == {"sk1", "sk2"}
Contexts == [sk : Sockets, user_port : {PacketPort, OtherPort}]
\* The ctx_info of a connection to the service address, before the rewrite.
FreshInfo == [vip |-> 3, dnat_ip |-> 0, dnat_port |-> 0, via_waypoint |-> FALSE]
NoConnection ==
    [ctx |-> [sk |-> "none", user_port |-> 0],
     backend_v |-> [addr |-> 0, service |-> << >>, service_count |-> 0,
                    wp_addr |-> 0, waypoint_port |-> 0],
     service_id |-> 0, info |-> FreshInfo, ret |-> "none"]

(***************************************************************************)
(* Actions: one resource of an Address response, fully processed.          *)
(***************************************************************************)
Init ==
    /\ hashName = Empty
    /\ frontend = Empty
    /\ service = Empty
    /\ endpoint = Empty
    /\ backend = Empty
    /\ byUid = Empty
    /\ relationShip = Empty
    /\ serviceCache = Empty
    /\ endpointsByService = Empty
    /\ startType = "Normal"
    /\ ack = "none"
    /\ bootType = "Normal"
    /\ addressBatches = 0
    /\ compareRuns = 0
    /\ map_of_dst_info = Empty
    /\ conn = NoConnection

UidsOf(inputs) == {w.uid : w \in inputs}
NamesOf(inputs) == {s.name : s \in inputs}

UpsertWorkload(inputs, failAt) ==
    \E w \in inputs : \E kept \in KeptServices(w) :
        Commit(handleWorkload(Cur(failAt), w, kept))

UpsertService(inputs, failAt) ==
    \E s \in inputs : \E order \in DrainOrders(Cur(failAt), s.name) :
        Commit(handleService(Cur(failAt), s, order))

RemoveWorkload(uids, failAt) ==
    \E uid \in uids : \E order \in FindKeyOrders(Cur(failAt), uid) :
        Commit(removeWorkloadResource(Cur(failAt), uid, order))

RemoveService(names, failAt) ==
    \E name \in names :
        Commit(removeServiceResource(Cur(failAt), name))

Next ==
    \/ UpsertWorkload(WorkloadInputs, 0)
    \/ UpsertService(ServiceInputs, 0)
    \/ RemoveWorkload(UidsOf(WorkloadInputs), 0)
    \/ RemoveService(NamesOf(ServiceInputs), 0)

Spec == Init /\ [][Next]_vars

NextSet ==
    \/ UpsertWorkload(SetWorkloadInputs, 0)
    \/ UpsertService(SetServiceInputs, 0)
    \/ RemoveWorkload(UidsOf(SetWorkloadInputs), 0)
    \/ RemoveService(NamesOf(SetServiceInputs), 0)

SpecSet == Init /\ [][NextSet]_vars

NextAddr ==
    \/ UpsertWorkload(AddrWorkloadInputs, 0)
    \/ UpsertService(AddrServiceInputs, 0)
    \/ RemoveWorkload(UidsOf(AddrWorkloadInputs), 0)
    \/ RemoveService(NamesOf(AddrServiceInputs), 0)

SpecAddr == Init /\ [][NextAddr]_vars

NextWaypoint ==
    \/ UpsertWorkload(WpWorkloadInputs, 0)
    \/ UpsertService(WpServiceInputs, 0)
    \/ RemoveWorkload(UidsOf(WpWorkloadInputs), 0)
    \/ RemoveService(NamesOf(WpServiceInputs), 0)

SpecWaypoint == Init /\ [][NextWaypoint]_vars

(***************************************************************************)
(* Actions on whole responses, and the restart of the process.             *)
(***************************************************************************)
WorkloadItem(w, failAt) == [kind |-> "workload", workload |-> w, failAt |-> failAt]
ServiceItem(s, failAt) == [kind |-> "service", service |-> s, failAt |-> failAt]
Unparsable == [kind |-> "unparsable"]
Removed(name, failAt) == [name |-> name, failAt |-> failAt]

\* A workload of the membership catalogue.
Member(uid, services) ==
    [uid |-> uid, addresses |-> HomeAddress[uid], services |-> services,
     hostNetwork |-> FALSE, waypoint |-> NoWaypoint]

\* The sequences of at most two elements of S.
UpToTwo(S) == {<< >>} \cup {<<x>> : x \in S} \cup {<<x, y>> : x \in S, y \in S}

AddressResponse(resources, removed) ==
    [typeUrl |-> "Address", resources |-> resources, removed |-> removed]
AuthorizationResponse ==
    [typeUrl |-> "Authorization", resources |-> << >>, removed |-> << >>]
UnknownResponse ==
    [typeUrl |-> "Unknown", resources |-> << >>, removed |-> << >>]

\* Processor.processWorkloadResponse on one response of the catalogue.
Response(rsps) ==
    \E rsp \in rsps : \E st \in processWorkloadResponse(Cur(0), rsp) : Commit(st)

\* The process stops and is launched again in Restart mode: the tables and
\* the HashName snapshot survive, the caches of the new Processor are empty.
\* The model follows the process through one restart.
ProcessRestart ==
    /\ bootType = "Normal"
    /\ byUid' = Empty
    /\ relationShip' = Empty
    /\ serviceCache' = Empty
    /\ endpointsByService' = Empty
    /\ startType' = "Restart"
    /\ bootType' = "Restart"
    /\ ack' = "none"
    /\ addressBatches' = 0
    /\ compareRuns' = 0
    /\ UNCHANGED <<hashName, frontend, service, endpoint, backend>>
    /\ UNCHANGED <<map_of_dst_info, conn>>

\* Restart: responses without failures, before and after a restart.
RestartItems ==
    {WorkloadItem(Member(W1, {S1}), 0), WorkloadItem(Member(W2, {S1}), 0),
     ServiceItem(PlainService(S1), 0)}
RestartResponses ==
    {AddressResponse(rs, rm) :
        rs \in {<< >>} \cup {<<x>> : x \in RestartItems},
        rm \in {<< >>, <<Removed(W1, 0)>>, <<Removed(W2, 0)>>, <<Removed(S1, 0)>>}}
    \cup {AuthorizationResponse}

NextRestart ==
    \/ Response(RestartResponses)
    \/ ProcessRestart

SpecRestart == Init /\ [][NextRestart]_vars

\* Batches: responses whose resources fail to parse or hit a failed table
\* write, and whose removals fail.
GoodItems ==
    {WorkloadItem(Member(W1, {S1}), 0), WorkloadItem(Member(W2, {S1}), 0),
     ServiceItem(PlainService(S1), 0)}
BadItems == {WorkloadItem(Member(W1, {S1}), 1), Unparsable}
BatchResources ==
    {<< >>} \cup {<<x>> : x \in GoodItems \cup BadItems}
            \cup {<<x, y>> : x \in GoodItems \cup BadItems, y \in GoodItems}
BatchRemovals ==
    {<< >>, <<Removed(W1, 0)>>, <<Removed(S1, 0)>>,
     <<Removed(W1, 1), Removed(W2, 0)>>, <<Removed(S2, 0), Removed(S1, 0)>>}
BatchResponses ==
    {AddressResponse(rs, rm) : rs \in BatchResources, rm \in BatchRemovals}
    \cup {AuthorizationResponse, UnknownResponse}

\* The model follows the process through MaxBatches Address responses.
NextBatch == addressBatches < MaxBatches /\ Response(BatchResponses)

SpecBatch == Init /\ [][NextBatch]_vars

\* Re-delivery: batches of up to two resources without failures or removals,
\* delivered before a restart and again after it.
RedeliverItems ==
    {WorkloadItem(Member(W1, {S1}), 0), WorkloadItem(Member(W2, {S1}), 0),
     ServiceItem(PlainService(S1), 0)}
RedeliverResponses == {AddressResponse(rs, << >>) : rs \in UpToTwo(RedeliverItems)}

NextRedeliver ==
    \/ Response(RedeliverResponses)
    \/ ProcessRestart

SpecRedeliver == Init /\ [][NextRedeliver]_vars

\* The packet path: one connection handled by backend_manager.
Connect ==
    \E ctx \in Contexts : \E backend_v \in BackendValues : \E service_v \in ServiceValues :
        LET r == backend_manager(map_of_dst_info, ctx, FreshInfo, backend_v,
                                 Hash[S1], service_v)
        IN  /\ map_of_dst_info' = r.map
            /\ conn' = [ctx |-> ctx, backend_v |-> backend_v, service_id |-> Hash[S1],
                        info |-> r.info, ret |-> r.ret]
            /\ UNCHANGED <<hashName, frontend, service, endpoint, backend, byUid,
                           relationShip, serviceCache, endpointsByService, startType,
                           ack, bootType, addressBatches, compareRuns>>

NextPacket == Connect

SpecPacket == Init /\ [][NextPacket]_vars

(***************************************************************************)
(* Steps of one kind, for the properties that speak about one operation.   *)
(***************************************************************************)
RemovalOf(uid) ==
    \E order \in FindKeyOrders(Cur(0), uid) :
        Commit(removeWorkloadResource(Cur(0), uid, order))

UpsertOf(w) ==
    \E kept \in KeptServices(w) : Commit(handleWorkload(Cur(0), w, kept))

\* The Endpoint slots of service sid.
SlotsOf(sid) == {k[2] : k \in {x \in DOMAIN endpoint : x[1] = sid}}

(***************************************************************************)
(* C1  Service densification: after every fully processed resource, the   *)
(* Endpoint rows of every Service row with endpointCount = N are exactly   *)
(* the slots 1..N of that service.                                         *)
(***************************************************************************)
ServiceDensification ==
    \A sid \in DOMAIN service : SlotsOf(sid) = 1..service[sid].endpointCount

(***************************************************************************)
(* C2  Relationship bijection: every Endpoint row (s, i) -> u has the      *)
(* relationship entry (u, s) -> i, and every relationship entry (u, s) -> i*)
(* has the Endpoint row (s, i) -> u.                                       *)
(***************************************************************************)
RelationshipBijection ==
    /\ \A ek \in DOMAIN endpoint :
          /\ <<endpoint[ek], ek[1]>> \in DOMAIN relationShip
          /\ relationShip[<<endpoint[ek], ek[1]>>] = ek[2]
    /\ \A r \in DOMAIN relationShip :
          /\ <<r[2], relationShip[r]>> \in DOMAIN endpoint
          /\ endpoint[<<r[2], relationShip[r]>>] = r[1]

(***************************************************************************)
(* C3  Densification swap: when the workload holding the non-tail slot k   *)
(* of a service with endpointCount = N is removed or leaves the service,   *)
(* then afterwards endpointCount = N-1, slot k holds the backendUid that   *)
(* was at slot N, slot N has no row, the workload has no relationship      *)
(* entry for the service and the moved workload's entry is k.              *)
(***************************************************************************)
\* Workload uid holds exactly the non-tail slot k of the dense service sid,
\* and the relationship index agrees with the slots of sid.
HoldsNonTailSlot(uid, sid, k) ==
    /\ sid \in DOMAIN service
    /\ SlotsOf(sid) = 1..service[sid].endpointCount
    /\ k \in 1..(service[sid].endpointCount - 1)
    /\ {i \in SlotsOf(sid) : endpoint[<<sid, i>>] = Hash[uid]} = {k}
    /\ \A i \in SlotsOf(sid) :
          /\ <<endpoint[<<sid, i>>], sid>> \in DOMAIN relationShip
          /\ relationShip[<<endpoint[<<sid, i>>], sid>>] = i

LeavesOrIsRemoved(uid, name) ==
    \/ RemovalOf(uid)
    \/ /\ uid \in DOMAIN byUid
       /\ name \in byUid[uid].services
       /\ \E w \in WorkloadInputs : w.uid = uid /\ name \notin w.services /\ UpsertOf(w)

SwapDone(uid, sid, k) ==
    LET N == service[sid].endpointCount
        moved == endpoint[<<sid, N>>]
    IN  /\ sid \in DOMAIN service'
        /\ service'[sid].endpointCount = N - 1
        /\ <<sid, k>> \in DOMAIN endpoint'
        /\ endpoint'[<<sid, k>>] = moved
        /\ <<sid, N>> \notin DOMAIN endpoint'
        /\ <<Hash[uid], sid>> \notin DOMAIN relationShip'
        /\ <<moved, sid>> \in DOMAIN relationShip'
        /\ relationShip'[<<moved, sid>>] = k

DensificationSwap ==
    [][\A uid \in WorkloadNames : \A name \in ServiceNames : \A k \in 1..MaxEndpoints :
          (HoldsNonTailSlot(uid, Hash[name], k) /\ LeavesOrIsRemoved(uid, name))
              => SwapDone(uid, Hash[name], k)]_vars

(***************************************************************************)
(* C4  After a workload has been removed (and not upserted again), no      *)
(* Frontend, Backend or Endpoint row references that workload's id.        *)
(***************************************************************************)
References(id) ==
    \/ \E ip \in DOMAIN frontend : frontend[ip] = id
    \/ id \in DOMAIN backend
    \/ \E ek \in DOMAIN endpoint : endpoint[ek] = id

NoRowOfRemovedWorkload ==
    \A uid \in WorkloadNames \ DOMAIN byUid : ~References(Hash[uid])

(***************************************************************************)
(* C5  Frontend coverage: every address of every live non-host-network     *)
(* workload has a Frontend row pointing to the workload's id and every     *)
(* address of every live service has a Frontend row pointing to the        *)
(* service's id; an address reused by a later workload is covered for the  *)
(* later workload once the earlier workload's removal has arrived.         *)
(***************************************************************************)
HoldersOf(ip) ==
    {n \in DOMAIN byUid : \E i \in 1..Len(byUid[n].addresses) : byUid[n].addresses[i] = ip}
    \cup
    {n \in DOMAIN serviceCache :
        \E i \in 1..Len(serviceCache[n].addresses) : serviceCache[n].addresses[i] = ip}

PointsTo(ip, name) == ip \in DOMAIN frontend /\ frontend[ip] = Hash[name]

\* Coverage of every address that has a single live holder.
Covered ==
    /\ \A uid \in DOMAIN byUid : \A i \in 1..Len(byUid[uid].addresses) :
          LET ip == byUid[uid].addresses[i]
          IN  (~byUid[uid].hostNetwork /\ HoldersOf(ip) = {uid}) => PointsTo(ip, uid)
    /\ \A name \in DOMAIN serviceCache : \A i \in 1..Len(serviceCache[name].addresses) :
          LET ip == serviceCache[name].addresses[i]
          IN  HoldersOf(ip) = {name} => PointsTo(ip, name)

\* The address of uid has been reused: its rows point to later workloads.
Superseded(uid) ==
    /\ uid \in DOMAIN byUid
    /\ \A i \in 1..Len(byUid[uid].addresses) :
          \E later \in DOMAIN byUid \ {uid} : PointsTo(byUid[uid].addresses[i], later)

FrontendCoverage ==
    [][\A uid \in WorkloadNames :
          (Covered /\ Superseded(uid) /\ RemovalOf(uid)) => Covered']_vars

(***************************************************************************)
(* C6  Backend completeness: every live workload has a Backend row, and    *)
(* the service ids stored in it are the current HashName ids of the        *)
(* services the workload is a member of, cut to MaxServiceNum entries.     *)
(***************************************************************************)
BackendCompleteness ==
    \A uid \in DOMAIN byUid :
        /\ Hash[uid] \in DOMAIN backend
        /\ LET row == backend[Hash[uid]]
               member == byUid[uid].services
           IN  /\ row.services \subseteq {hashName[n] : n \in member \cap DOMAIN hashName}
               /\ row.serviceCount = Cardinality(row.services)
               /\ row.serviceCount = Min(Cardinality(member), MaxServiceNum)

(***************************************************************************)
(* C7  Waypoint safety: no Service row carries a non-zero waypoint address *)
(* or port if that address is the service's own first address or the       *)
(* service exposes service port 15021.                                     *)
(***************************************************************************)
CarriesWaypoint(row) == row.waypointAddr # 0 \/ row.waypointPort # 0

Tables(st) == <<st.frontend, st.service, st.endpoint, st.backend>>
Retry(st) == [st EXCEPT !.writes = 0, !.failAt = 0, !.err = FALSE]

ReconvergesAfterFailedWrite ==
    \A w \in WorkloadInputs : \A kept \in KeptServices(w) : \A failAt \in 1..MaxFailAt :
        LET aborted == handleWorkload(Cur(failAt), w, kept)
            again == handleWorkload(Retry(aborted), w, kept)
            once == handleWorkload(Cur(0), w, kept)
        IN  aborted.err =>
               /\ Tables(again) = Tables(once)
               /\ again.relationShip = once.relationShip

(***************************************************************************)
(* C9  Idempotence of workload upsert: applying the same workload record   *)
(* twice in a row leaves the four tables as applying it once.              *)
(***************************************************************************)
UpsertIdempotent ==
    \A w \in SetWorkloadInputs : \A kept1 \in KeptServices(w) : \A kept2 \in KeptServices(w) :
        LET once == handleWorkload(Cur(0), w, kept1)
            twice == handleWorkload(Retry(once), w, kept2)
        IN  Tables(twice) = Tables(once)

(***************************************************************************)
(* C10 Round trip: upserting a previously unknown workload and then        *)
(* removing it returns the four tables to their contents before the upsert.*)
(***************************************************************************)
\* Nothing is known of uid: no cache entry, no id, no row, no buffered membership.
Unknown(uid) ==
    /\ uid \notin DOMAIN byUid
    /\ uid \notin DOMAIN hashName
    /\ ~References(Hash[uid])
    /\ \A n \in DOMAIN endpointsByService : uid \notin endpointsByService[n]

UpsertThenRemove ==
    \A w \in AddrWorkloadInputs : \A kept \in KeptServices(w) :
        (/\ Unknown(w.uid)
         /\ \A i \in 1..Len(w.addresses) : w.addresses[i] \notin DOMAIN frontend)
        => LET upserted == handleWorkload(Cur(0), w, kept)
           IN  \A order \in Orders(EndpointIterFindKey(upserted, Hash[w.uid])) :
                  Tables(removeWorkloadResource(Retry(upserted), w.uid, order))
                      = Tables(Cur(0))

(***************************************************************************)
(* C11 Order independence of arrival: starting from empty tables,          *)
(* delivering a workload that lists a service and then the service gives   *)
(* the same tables and relationship index as delivering the service and    *)
(* then the workload: a Service row with endpointCount = 1, the Endpoint   *)
(* row (serviceId, 1) -> workload id, and the Frontend rows of both.       *)
(***************************************************************************)
EmptyTables ==
    /\ frontend = Empty
    /\ service = Empty
    /\ endpoint = Empty
    /\ backend = Empty

\* The final state: workload w is the one endpoint of service s.
JoinedOnce(st, w, s) ==
    /\ Hash[s.name] \in DOMAIN st.service
    /\ st.service[Hash[s.name]].endpointCount = 1
    /\ {ek \in DOMAIN st.endpoint : ek[1] = Hash[s.name]} = {<<Hash[s.name], 1>>}
    /\ st.endpoint[<<Hash[s.name], 1>>] = Hash[w.uid]
    /\ \A i \in 1..Len(w.addresses) :
          /\ w.addresses[i] \in DOMAIN st.frontend
          /\ st.frontend[w.addresses[i]] = Hash[w.uid]
    /\ \A i \in 1..Len(s.addresses) :
          /\ s.addresses[i] \in DOMAIN st.frontend
          /\ st.frontend[s.addresses[i]] = Hash[s.name]

WorkloadThenService(w, s) ==
    LET s1 == handleWorkload(Cur(0), w, w.services)
    IN  {handleService(Retry(s1), s, order) : order \in DrainOrders(s1, s.name)}

ServiceThenWorkload(w, s) ==
    {handleWorkload(Retry(handleService(Cur(0), s, order)), w, w.services) :
        order \in DrainOrders(Cur(0), s.name)}

OrderIndependence ==
    EmptyTables =>
        \A w \in WorkloadInputs : \A s \in ServiceInputs :
            s.name \in w.services =>
                \A a \in WorkloadThenService(w, s) : \A b \in ServiceThenWorkload(w, s) :
                    /\ Tables(a) = Tables(b)
                    /\ a.relationShip = b.relationShip
                    /\ JoinedOnce(a, w, s)
                    /\ JoinedOnce(b, w, s)

\* The same from the state of a freshly started process.
OrderIndependenceAtStart ==
    (EmptyTables /\ endpointsByService = Empty /\ relationShip = Empty) => OrderIndependence

(***************************************************************************)
(* C12 Restart reconciliation: when the process was launched in Restart    *)
(* mode, then after its first Address response, for every HashName entry   *)
(* whose name is neither a live workload nor a live service, no Backend    *)
(* row and no Service row is keyed by its id, no Endpoint row references   *)
(* its id, and the HashName entry is gone.                                 *)
(***************************************************************************)
\* The step that processes the first Address response after a restart.
FirstAddressResponse ==
    /\ startType = "Restart"
    /\ addressBatches = 0
    /\ addressBatches' = 1

Live(name) == name \in DOMAIN byUid \/ name \in DOMAIN serviceCache

\* No row is keyed by the id of name and no Endpoint row references it.
NoRowsOf(name) ==
    /\ Hash[name] \notin DOMAIN backend
    /\ Hash[name] \notin DOMAIN service
    /\ \A ek \in DOMAIN endpoint : ek[1] # Hash[name] /\ endpoint[ek] # Hash[name]

Collected(name) == name \notin DOMAIN hashName /\ NoRowsOf(name)

ReconciliationEffect ==
    [][FirstAddressResponse =>
          \A name \in DOMAIN hashName : (~Live(name))' => Collected(name)']_vars

\* The same for the entries whose id keys a Backend row or a Service row
\* when the response arrives.
ReconciliationOfRows ==
    [][FirstAddressResponse =>
          \A name \in DOMAIN hashName :
              ((Hash[name] \in DOMAIN backend \/ Hash[name] \in DOMAIN service)
               /\ (~Live(name))') => Collected(name)']_vars

(***************************************************************************)
(* C13 Reconciliation runs exactly once per process: launched in Restart   *)
(* mode, the pass runs at the end of the first Address response, after the *)
(* upserts and removals of that response, and in no later response;        *)
(* launched in Normal mode, and on Authorization responses, it never runs. *)
(***************************************************************************)
\* The passes one response runs, each seeing the caches the response leaves.
PassesOf(rsp) ==
    \A st \in processWorkloadResponse(Cur(0), rsp) :
        st.passes = IF startType = "Restart" /\ rsp.typeUrl = "Address"
                    THEN <<LiveNames(st)>>
                    ELSE << >>

ReconciliationOnce ==
    /\ compareRuns = IF bootType = "Restart" /\ addressBatches >= 1 THEN 1 ELSE 0
    /\ (startType = "Restart") <=> (bootType = "Restart" /\ addressBatches = 0)
    /\ \A rsp \in RestartResponses : PassesOf(rsp)

\* A process launched in Restart mode has processed several Address
\* responses and an Authorization response, over tables of the last epoch.
ReconciliationOnceWitness ==
    /\ bootType = "Restart"
    /\ addressBatches = MaxBatches
    /\ ack = "Authorization"
    /\ compareRuns = 1
    /\ byUid # Empty

(***************************************************************************)
(* C14 HashName entry lifetime: the entry of a name is deleted only when   *)
(* the last resource referencing the name is removed; removing a service   *)
(* does not delete its id while a live workload still lists the service,   *)
(* and removing a name that has no rows does not disturb the ids still     *)
(* referenced by live resources.                                           *)
(***************************************************************************)
\* A live workload or service has the name, or a live workload lists it.
ReferencedByLive(name) ==
    \/ name \in DOMAIN byUid
    \/ name \in DOMAIN serviceCache
    \/ \E uid \in DOMAIN byUid : name \in byUid[uid].services

HashNameLifetime ==
    [][\A name \in DOMAIN hashName :
          name \notin DOMAIN hashName' => ~ReferencedByLive(name)']_vars

(***************************************************************************)
(* C15 Invariants under write failures: when a table write fails during    *)
(* endpoint addition or endpoint deletion and the operation is aborted,    *)
(* then once the processing of that resource has returned, densification   *)
(* still holds for the affected service: no Endpoint row has a             *)
(* backendIndex greater than endpointCount and no index in 1..endpointCount*)
(* is missing.                                                             *)
(***************************************************************************)
DenseIn(st) ==
    \A sid \in DOMAIN st.service :
        {ek[2] : ek \in {x \in DOMAIN st.endpoint : x[1] = sid}}
            = 1..st.service[sid].endpointCount

\* The states in which a resource may leave the processor when one of its
\* table writes fails.
AbortedUpserts ==
    UNION {{handleWorkload(Cur(failAt), w, kept) : kept \in KeptServices(w)} :
           w \in WorkloadInputs, failAt \in 1..MaxFailAt}
AbortedRemovals ==
    UNION {{removeWorkloadResource(Cur(failAt), uid, order) :
               order \in FindKeyOrders(Cur(0), uid)} :
           uid \in WorkloadNames, failAt \in 1..MaxFailAt}
AbortedDrains ==
    UNION {{handleService(Cur(failAt), s, order) : order \in DrainOrders(Cur(0), s.name)} :
           s \in ServiceInputs, failAt \in 1..MaxFailAt}

DenseAfterFailedWrite ==
    ServiceDensification =>
        \A st \in AbortedUpserts \cup AbortedRemovals \cup AbortedDrains :
            st.err => DenseIn(st)

(***************************************************************************)
(* C16 In an Address response, a resource that does not parse or whose     *)
(* processing fails does not abort the batch: every later resource is      *)
(* still applied, in received order, and the removals of the response are  *)
(* applied after all its upserts.                                          *)
(***************************************************************************)
NamedBy(r) ==
    IF r.kind = "workload" THEN r.workload.uid
    ELSE IF r.kind = "service" THEN r.service.name
    ELSE ""

RemovedNames(rsp) == {rsp.removed[k].name : k \in 1..Len(rsp.removed)}

\* The record of resource r is the one the caches hold; if no write of r
\* failed, its rows are in the tables.
Upserted(st, r) ==
    IF r.kind = "workload"
    THEN LET w == r.workload
         IN  /\ w.uid \in DOMAIN st.byUid
             /\ st.byUid[w.uid] = w
             /\ r.failAt = 0 =>
                   /\ Hash[w.uid] \in DOMAIN st.backend
                   /\ st.backend[Hash[w.uid]].ip = w.addresses[Len(w.addresses)]
                   /\ \A i \in 1..Len(w.addresses) :
                         /\ w.addresses[i] \in DOMAIN st.frontend
                         /\ st.frontend[w.addresses[i]] = Hash[w.uid]
    ELSE LET svc == r.service
         IN  /\ svc.name \in DOMAIN st.serviceCache
             /\ st.serviceCache[svc.name] = StripWaypoint(svc)
             /\ r.failAt = 0 =>
                   /\ Hash[svc.name] \in DOMAIN st.service
                   /\ \A i \in 1..Len(svc.addresses) :
                         /\ svc.addresses[i] \in DOMAIN st.frontend
                         /\ st.frontend[svc.addresses[i]] = Hash[svc.name]

\* Every resource that parses, is the last of its name in the response and
\* is not removed by the response, is upserted.
UpsertsApplied(st, rsp) ==
    \A i \in 1..Len(rsp.resources) :
        LET r == rsp.resources[i]
        IN  (/\ r.kind # "unparsable"
             /\ \A j \in (i + 1)..Len(rsp.resources) : NamedBy(rsp.resources[j]) # NamedBy(r)
             /\ NamedBy(r) \notin RemovedNames(rsp))
            => Upserted(st, r)

\* The first workload and the first service the response removes are gone,
\* also when the response upserts them.
RemovalsApplied(st, rsp) ==
    LET workloadNames == SelectSeq(rsp.removed, IsWorkloadName)
        serviceNames == SelectSeq(rsp.removed, IsServiceName)
    IN  /\ workloadNames # << >> =>
              /\ workloadNames[1].name \notin DOMAIN st.byUid
              /\ workloadNames[1].failAt = 0 => Hash[workloadNames[1].name] \notin DOMAIN st.backend
        /\ serviceNames # << >> =>
              /\ serviceNames[1].name \notin DOMAIN st.serviceCache
              /\ serviceNames[1].failAt = 0 => Hash[serviceNames[1].name] \notin DOMAIN st.service

BatchContinues ==
    \A rsp \in BatchResponses :
        rsp.typeUrl = "Address" =>
            \A st \in processWorkloadResponse(Cur(0), rsp) :
                UpsertsApplied(st, rsp) /\ RemovalsApplied(st, rsp)

\* One Address response has been processed: the upsert of w1 failed at its
\* first table write, the upsert of w2 after it was applied.
BatchContinuesWitness ==
    /\ addressBatches = 1
    /\ W1 \in DOMAIN byUid
    /\ Hash[W1] \notin DOMAIN backend
    /\ W2 \in DOMAIN byUid
    /\ Hash[W2] \in DOMAIN backend

(***************************************************************************)
(* C17 A failure while removing one resource (a failed table delete, or a  *)
(* removed service name that has no Service row) does not prevent the      *)
(* removal of the other resources the response names: every other named    *)
(* workload and service is removed from the tables.                        *)
(***************************************************************************)
\* The Backend row of a named workload, the Service row of a named service
\* is gone.
RemovedFromTables(st, item) ==
    IF IsWorkloadName(item)
    THEN Hash[item.name] \notin DOMAIN st.backend
    ELSE Hash[item.name] \notin DOMAIN st.service

OtherRemovalsApplied ==
    \A rsp \in BatchResponses :
        rsp.typeUrl = "Address" =>
            \A st \in processWorkloadResponse(Cur(0), rsp) :
                \A k \in 1..Len(rsp.removed) :
                    rsp.removed[k].failAt = 0 => RemovedFromTables(st, rsp.removed[k])

(***************************************************************************)
(* C18 Service removal ordering: in every table state the packet path may  *)
(* read during the removal of a service, one row write at a time, if a     *)
(* Frontend row with upstreamId = serviceId exists then the Service row    *)
(* of serviceId exists: the Frontend rows of the service are deleted       *)
(* before its Service row.                                                 *)
(***************************************************************************)
\* The removals of service name from the current state: complete, or
\* aborted by a failed delete.
RemovalsOfService(name) ==
    {removeServiceResource(Cur(failAt), name) : failAt \in 0..MaxFailAt}

NoFrontendWithoutService(tables, serviceId) ==
    (\E ip \in DOMAIN tables.frontend : tables.frontend[ip] = serviceId)
        => serviceId \in DOMAIN tables.service

FrontendBeforeService ==
    \A name \in ServiceNames :
        \A st \in RemovalsOfService(name) :
            \A i \in 1..Len(st.seen) : NoFrontendWithoutService(st.seen[i], Hash[name])

\* A service with a Service row and two Frontend rows is about to be
\* removed: the removal passes through states with one of its Frontend rows left.
FrontendBeforeServiceWitness ==
    \E name \in ServiceNames :
        /\ Hash[name] \in DOMAIN service
        /\ Cardinality(FrontendIterFindKey(Cur(0), Hash[name])) = 2
        /\ LET st == removeServiceResource(Cur(0), name)
           IN  /\ Len(st.seen) >= 3
               /\ Hash[name] \notin DOMAIN st.service
               /\ \E i \in 1..Len(st.seen) :
                     /\ Hash[name] \in DOMAIN st.seen[i].service
                     /\ Cardinality({ip \in DOMAIN st.seen[i].frontend :
                                        st.seen[i].frontend[ip] = Hash[name]}) = 1

(***************************************************************************)
(* C19 Buffer drain on first service appearance: when a service with no    *)
(* Service row is upserted and endpointsByService holds the set B of       *)
(* workload uids for its name, then afterwards the Service row has         *)
(* endpointCount = |B|, the Endpoint rows (serviceId, 1..|B|) hold the ids *)
(* of the workloads of B one-to-one, the relationship entry of each        *)
(* drained workload is its index, and the buffer entry is deleted; a later *)
(* update of the service does not drain again.                             *)
(***************************************************************************)
Buffered(name) == IF name \in DOMAIN endpointsByService THEN endpointsByService[name] ELSE {}

HasServiceRow(name) == name \in DOMAIN hashName /\ hashName[name] \in DOMAIN service

\* What the first upsert of s leaves, st, for the buffered set B.
Drained(st, s, B) ==
    LET sid == Hash[s.name]
        n == Cardinality(B)
    IN  /\ sid \in DOMAIN st.service
        /\ st.service[sid].endpointCount = n
        /\ \A i \in 1..n : <<sid, i>> \in DOMAIN st.endpoint
        /\ {st.endpoint[<<sid, i>>] : i \in 1..n} = {Hash[uid] : uid \in B}
        /\ \A uid \in B :
              /\ <<Hash[uid], sid>> \in DOMAIN st.relationShip
              /\ st.relationShip[<<Hash[uid], sid>>] \in 1..n
              /\ st.endpoint[<<sid, st.relationShip[<<Hash[uid], sid>>]>>] = Hash[uid]
        /\ s.name \notin DOMAIN st.endpointsByService

\* An update of s applied to st changes neither the endpoints of the service
\* nor its count, the relationship index or the buffer.
NotDrainedAgain(st, s) ==
    \A order \in DrainOrders(st, s.name) :
        LET again == handleService(Fresh(st, 0), s, order)
        IN  /\ again.endpoint = st.endpoint
            /\ again.relationShip = st.relationShip
            /\ again.endpointsByService = st.endpointsByService
            /\ again.service[Hash[s.name]].endpointCount
                  = st.service[Hash[s.name]].endpointCount

BufferDrain ==
    \A s \in ServiceInputs :
        IF HasServiceRow(s.name)
        THEN NotDrainedAgain(Cur(0), s)
        ELSE s.name \in DOMAIN endpointsByService =>
                \A order \in DrainOrders(Cur(0), s.name) :
                    LET st == handleService(Cur(0), s, order)
                    IN  Drained(st, s, Buffered(s.name)) /\ NotDrainedAgain(st, s)

\* Two workloads are buffered for a service that has no Service row, and
\* its first upsert gives it two endpoints.
BufferDrainWitness ==
    \E s \in ServiceInputs :
        /\ ~HasServiceRow(s.name)
        /\ Cardinality(Buffered(s.name)) = 2
        /\ \E order \in DrainOrders(Cur(0), s.name) :
              handleService(Cur(0), s, order).service[Hash[s.name]].endpointCount = 2

(***************************************************************************)
(* C20 Deterministic drain order: for the same buffered set of workload    *)
(* uids the first upsert of the service assigns the same backendIndex to   *)
(* each workload in every run, so that two runs of the same inputs give    *)
(* the same Endpoint table and the same relationship index.                *)
(***************************************************************************)
DrainDeterministic ==
    \A s \in ServiceInputs :
        \A order1 \in DrainOrders(Cur(0), s.name) : \A order2 \in DrainOrders(Cur(0), s.name) :
            LET run1 == handleService(Cur(0), s, order1)
                run2 == handleService(Cur(0), s, order2)
            IN  /\ run1.endpoint = run2.endpoint
                /\ run1.relationShip = run2.relationShip

(***************************************************************************)
(* C21  Membership completeness: after every fully processed resource,     *)
(* for every service with a Service row and every live workload W, the     *)
(* service has an Endpoint row with backendUid = id(W) if and only if W's  *)
(* current service set contains the service.                               *)
(***************************************************************************)
\* Some Endpoint slot of the service holds the workload's id.
IsEndpointOf(uid, name) ==
    \E k \in SlotsOf(Hash[name]) : endpoint[<<Hash[name], k>>] = Hash[uid]

MembershipCompleteness ==
    \A name \in ServiceNames : \A uid \in DOMAIN byUid :
        HasServiceRow(name) =>
            (IsEndpointOf(uid, name) <=> name \in byUid[uid].services)

(***************************************************************************)
(* C22  No duplicate endpoints: after every fully processed resource no    *)
(* two Endpoint slots of the same service hold the same backendUid, also   *)
(* when the process starts in Restart mode on the rows of the previous     *)
(* epoch and the first batch delivers the same workloads and services.     *)
(***************************************************************************)
NoDuplicateEndpoints ==
    \A sid \in DOMAIN service : \A i, j \in SlotsOf(sid) :
        endpoint[<<sid, i>>] = endpoint[<<sid, j>>] => i = j

(***************************************************************************)
(* C23  Frame of workload removal: removing a workload deletes only        *)
(* Frontend rows whose upstreamId is that workload's id; the Frontend rows *)
(* pointing to other workloads or to services are left unchanged, also     *)
(* when the removed workload is in host-network mode or its stored address *)
(* has been taken over by another workload or service.                     *)
(***************************************************************************)
\* The Frontend rows that do not point to id are the same before and after.
FrontendRowsOfOthersKept(id) ==
    \A ip \in DOMAIN frontend :
        frontend[ip] # id => (ip \in DOMAIN frontend' /\ frontend'[ip] = frontend[ip])

WorkloadRemovalFrame ==
    [][\A uid \in WorkloadNames :
          RemovalOf(uid) => FrontendRowsOfOthersKept(Hash[uid])]_vars

(***************************************************************************)
(* C24  Packet-path waypoint routing: when backend_manager is called with  *)
(* a Backend row that carries a waypoint (address and port non-zero) and   *)
(* the original destination is recorded, the call returns success with     *)
(* the destination rewritten to the waypoint address and port and          *)
(* via_waypoint = true, whatever the service list of the Backend row and   *)
(* the ports of the Service row are.                                       *)
(***************************************************************************)
\* This step recorded the original destination of the connection it handled.
RecordedDestination ==
    /\ conn'.ctx.sk \notin DOMAIN map_of_dst_info
    /\ conn'.ctx.sk \in DOMAIN map_of_dst_info'

WaypointRouting ==
    [][(/\ conn'.backend_v.wp_addr # 0
        /\ conn'.backend_v.waypoint_port # 0
        /\ RecordedDestination)
          => /\ conn'.ret = "OK"
             /\ conn'.info.dnat_ip = conn'.backend_v.wp_addr
             /\ conn'.info.dnat_port = conn'.backend_v.waypoint_port
             /\ conn'.info.via_waypoint]_vars

====
